---- MODULE Spec2Model ----
(***************************************************************************)
(* Model of the seller-apis scripts: seller.py (Ozon) and market.py        *)
(* (Yandex Market).  Each script fetches the ids of the listed offers,     *)
(* downloads the feed (the spreadsheet of watch remnants), builds stock    *)
(* and price updates and submits them in chunks.                           *)
(*                                                                         *)
(* Text is modelled as a sequence of one-character strings, so that        *)
(* parsing (int) and formatting (str, re.sub, split) are computed and not  *)
(* assumed.  A Python None is the value None below, which is no text.      *)
(***************************************************************************)
EXTENDS Integers, Sequences, FiniteSets, TLC

VARIABLES
    prog,            \* which script runs: "seller" (seller.main) or "market" (market.main)
    pc,              \* position of main
    campaign,        \* account the run works on: "ozon", "fbs" or "dbs"
    source,          \* the rows the published spreadsheet holds (download_stock's result)
    server,          \* per campaign: the page bodies the listing endpoint will answer with
    watch_remnants,  \* main's watch_remnants
    page,            \* get_offer_ids' last_id (seller) / page (market)
    product_list,    \* get_offer_ids' product_list
    offer_ids,       \* main's offer_ids (the list object create_stocks receives)
    fetched,         \* history, per campaign: the list get_offer_ids returned
    stocks,          \* main's stocks
    prices,          \* main's prices
    batch,           \* list(divide(...)) being iterated by the for loop
    i,               \* index in batch of the next chunk to submit
    requests,        \* history: every network request issued, in order
    seen,            \* history: the page bodies get_offer_ids consumed
    error,           \* "none" or the exception that ended the run
    lst,             \* divide's lst, when divide is called on its own
    n                \* divide's n, when divide is called on its own

vars == <<prog, pc, campaign, source, server, watch_remnants, page, product_list,
          offer_ids, fetched, stocks, prices, batch, i, requests, seen, error, lst, n>>

----------------------------------------------------------------------------
(* Bounds of the model *)

\* largest code of a feed row given to create_stocks or create_prices on its
\* own; the listed ids are the texts of 1..MaxCode
MaxCode == 2
\* longest feed of a whole run
MaxFeed == 2
\* longest small catalog of a whole run
MaxListed == 2
\* length of the large catalog (more than one stock chunk of 100)
BulkListed == 101
\* page size the listing server uses for small catalogs
SmallPage == 1
\* most pages an arbitrary listing endpoint answers with
MaxPages == 2
\* longest quantity text given to the quantity rule on its own
MaxQtyLen == 3
\* longest list and largest chunk size given to divide
MaxDivLen == 5
MaxDivN == 3
\* longest price text given to price_conversion on its own
MaxPriceLen == 5

----------------------------------------------------------------------------
(* Text *)

None == <<"None">>

Digits == {"0", "1", "2", "3", "4", "5", "6", "7", "8", "9"}

DigitChars == <<"0", "1", "2", "3", "4", "5", "6", "7", "8", "9">>

DigitVal(c) == CHOOSE d \in 0..9 : DigitChars[d + 1] = c

SeqUpTo(S, k) == UNION {[1..m -> S] : m \in 0..k}

RECURSIVE Str(_)
\* str(n) of a natural number
Str(num) == IF num < 10 THEN <<DigitChars[num + 1]>>
            ELSE Str(num \div 10) \o <<DigitChars[(num % 10) + 1]>>

RECURSIVE LStrip(_)
LStrip(s) == IF s # <<>> /\ Head(s) = " " THEN LStrip(Tail(s)) ELSE s

RECURSIVE RStrip(_)
RStrip(s) == IF s # <<>> /\ s[Len(s)] = " " THEN RStrip(SubSeq(s, 1, Len(s) - 1)) ELSE s

RECURSIVE DigitsValue(_, _)
\* value of a digit group, underscores skipped
DigitsValue(s, acc) ==
    IF s = <<>> THEN acc
    ELSE IF Head(s) = "_" THEN DigitsValue(Tail(s), acc)
    ELSE DigitsValue(Tail(s), 10 * acc + DigitVal(Head(s)))

\* the digit part of an int literal: digits, single underscores between digits
WellGrouped(s) ==
    /\ s # <<>>
    /\ \A k \in 1..Len(s) : s[k] \in Digits \cup {"_"}
    /\ s[1] \in Digits
    /\ s[Len(s)] \in Digits
    /\ \A k \in 1..(Len(s) - 1) : ~(s[k] = "_" /\ s[k + 1] = "_")

\* Python's int(text): surrounding whitespace, an optional sign, the digits
PyInt(s) ==
    LET t == RStrip(LStrip(s))
        signed == t # <<>> /\ Head(t) \in {"+", "-"}
        body == IF signed THEN Tail(t) ELSE t
    IN  IF WellGrouped(body)
        THEN [ok |-> TRUE,
              val |-> IF signed /\ Head(t) = "-" THEN 0 - DigitsValue(body, 0)
                      ELSE DigitsValue(body, 0)]
        ELSE [ok |-> FALSE, val |-> 0]

RECURSIVE BeforeFirstDot(_)
\* price.split(".")[0]
BeforeFirstDot(s) ==
    IF s = <<>> \/ Head(s) = "." THEN <<>>
    ELSE <<Head(s)>> \o BeforeFirstDot(Tail(s))

RECURSIVE OnlyDigits(_)
\* re.sub("[^0-9]", "", s)
OnlyDigits(s) ==
    IF s = <<>> THEN <<>>
    ELSE IF Head(s) \in Digits THEN <<Head(s)>> \o OnlyDigits(Tail(s))
    ELSE OnlyDigits(Tail(s))

\* price_conversion without the split at the first "."
price_conversion_all_digits(price) == OnlyDigits(price)

\* seller.price_conversion(price)
price_conversion(price) == OnlyDigits(BeforeFirstDot(price))

----------------------------------------------------------------------------
(* Python list operations *)

InList(x, l) == \E k \in 1..Len(l) : l[k] = x

\* list.remove(x): the first occurrence goes
Remove(l, x) ==
    LET k == CHOOSE j \in 1..Len(l) : l[j] = x /\ \A m \in 1..(j - 1) : l[m] # x
    IN  SubSeq(l, 1, k - 1) \o SubSeq(l, k + 1, Len(l))

Min(a, b) == IF a < b THEN a ELSE b

RECURSIVE DivideFrom(_, _, _)
DivideFrom(l, size, from) ==
    IF from > Len(l) THEN <<>>
    ELSE <<SubSeq(l, from, Min(from + size - 1, Len(l)))>> \o DivideFrom(l, size, from + size)

\* divide with the short last chunk lost
divide_whole_chunks(l, size) ==
    DivideFrom(SubSeq(l, 1, (Len(l) \div size) * size), size, 1)

\* list(divide(lst, n)): lst[i : i + n] for i in range(0, len(lst), n)
divide(l, size) == DivideFrom(l, size, 1)

----------------------------------------------------------------------------
(* Program constants *)

OzonStocksChunk == 100
OzonPricesChunk == 900
OzonPageLimit == 1000
MarketStocksChunk == 2000
MarketPricesChunk == 500
MarketPageLimit == 200
\* "За один запрос можно изменить наличие для 100 товаров" (update_stocks, market.py)
MarketStocksPerRequest == 100

----------------------------------------------------------------------------
(* The reconciliation functions.  A feed row is                            *)
(* [Kod |-> code, Kolichestvo |-> quantity text, Tsena |-> price text]     *)
(* for the spreadsheet columns "Код", "Количество" and "Цена".             *)

\* the quantity rule with a text int() rejects counted as 0
stock_of_count_lenient(count) ==
    IF count = <<">", "1", "0">> THEN [ok |-> TRUE, val |-> 100]
    ELSE IF PyInt(count).ok /\ count # <<"1">> THEN PyInt(count)
    ELSE [ok |-> TRUE, val |-> 0]

\* the quantity rule of create_stocks: ">10" -> 100, "1" -> 0, else int()
stock_of_count(count) ==
    IF count = <<">", "1", "0">> THEN [ok |-> TRUE, val |-> 100]
    ELSE IF count = <<"1">> THEN [ok |-> TRUE, val |-> 0]
    ELSE PyInt(count)

RECURSIVE SellerStocksLoop(_, _, _, _)
\* first loop of seller.create_stocks from row k on; ids is the caller's list
SellerStocksLoop(feed, k, ids, acc) ==
    IF k > Len(feed) THEN [ok |-> TRUE, stocks |-> acc, offer_ids |-> ids]
    ELSE LET code == Str(feed[k].Kod)
         IN  IF InList(code, ids)
             THEN LET stock == stock_of_count(feed[k].Kolichestvo)
                  IN  IF ~stock.ok
                      THEN [ok |-> FALSE, stocks |-> acc, offer_ids |-> ids]
                      ELSE SellerStocksLoop(feed, k + 1, Remove(ids, code),
                               Append(acc, [offer_id |-> code, stock |-> stock.val]))
             ELSE SellerStocksLoop(feed, k + 1, ids, acc)

\* seller.create_stocks(watch_remnants, offer_ids): the stocks, whether it
\* returned (ok) or raised ValueError, and the caller's list as it leaves it
SellerCreateStocks(feed, ids) ==
    LET r == SellerStocksLoop(feed, 1, ids, <<>>)
    IN  IF ~r.ok THEN r
        ELSE [ok |-> TRUE,
              stocks |-> r.stocks \o
                         [k \in 1..Len(r.offer_ids) |->
                             [offer_id |-> r.offer_ids[k], stock |-> 0]],
              offer_ids |-> r.offer_ids]

\* one element of market.create_stocks' result
MarketStock(sku, warehouse_id, count) ==
    [sku |-> sku, warehouseId |-> warehouse_id,
     items |-> <<[count |-> count, type |-> "FIT", updatedAt |-> "date"]>>]

RECURSIVE MarketStocksLoop(_, _, _, _, _)
MarketStocksLoop(feed, k, ids, warehouse_id, acc) ==
    IF k > Len(feed) THEN [ok |-> TRUE, stocks |-> acc, offer_ids |-> ids]
    ELSE LET code == Str(feed[k].Kod)
         IN  IF InList(code, ids)
             THEN LET stock == stock_of_count(feed[k].Kolichestvo)
                  IN  IF ~stock.ok
                      THEN [ok |-> FALSE, stocks |-> acc, offer_ids |-> ids]
                      ELSE MarketStocksLoop(feed, k + 1, Remove(ids, code), warehouse_id,
                               Append(acc, MarketStock(code, warehouse_id, stock.val)))
             ELSE MarketStocksLoop(feed, k + 1, ids, warehouse_id, acc)

\* market.create_stocks(watch_remnants, offer_ids, warehouse_id)
MarketCreateStocks(feed, ids, warehouse_id) ==
    LET r == MarketStocksLoop(feed, 1, ids, warehouse_id, <<>>)
    IN  IF ~r.ok THEN r
        ELSE [ok |-> TRUE,
              stocks |-> r.stocks \o
                         [k \in 1..Len(r.offer_ids) |->
                             MarketStock(r.offer_ids[k], warehouse_id, 0)],
              offer_ids |-> r.offer_ids]

RECURSIVE SellerPricesLoop(_, _, _, _)
SellerPricesLoop(feed, k, ids, acc) ==
    IF k > Len(feed) THEN [ok |-> TRUE, prices |-> acc]
    ELSE IF InList(Str(feed[k].Kod), ids)
         THEN SellerPricesLoop(feed, k + 1, ids,
                  Append(acc, [auto_action_enabled |-> "UNKNOWN",
                               currency_code |-> "RUB",
                               offer_id |-> Str(feed[k].Kod),
                               old_price |-> "0",
                               price |-> price_conversion(feed[k].Tsena)]))
         ELSE SellerPricesLoop(feed, k + 1, ids, acc)

\* create_prices without the test that the row's code is listed
SellerCreatePricesUnfiltered(feed, ids) ==
    SellerPricesLoop(feed, 1, [k \in 1..Len(feed) |-> Str(feed[k].Kod)], <<>>)

\* seller.create_prices(watch_remnants, offer_ids)
SellerCreatePrices(feed, ids) == SellerPricesLoop(feed, 1, ids, <<>>)

RECURSIVE MarketPricesLoop(_, _, _, _)
MarketPricesLoop(feed, k, ids, acc) ==
    IF k > Len(feed) THEN [ok |-> TRUE, prices |-> acc]
    ELSE IF InList(Str(feed[k].Kod), ids)
         THEN LET value == PyInt(price_conversion(feed[k].Tsena))
              IN  IF ~value.ok THEN [ok |-> FALSE, prices |-> acc]
                  ELSE MarketPricesLoop(feed, k + 1, ids,
                           Append(acc, [id |-> Str(feed[k].Kod),
                                        price |-> [value |-> value.val,
                                                   currencyId |-> "RUR"]]))
         ELSE MarketPricesLoop(feed, k + 1, ids, acc)

\* market.create_prices(watch_remnants, offer_ids); int() of a price without
\* digits raises ValueError
MarketCreatePrices(feed, ids) == MarketPricesLoop(feed, 1, ids, <<>>)

\* the offer id an update is for, whichever marketplace it is built for
UpdateId(u) ==
    IF "offer_id" \in DOMAIN u THEN u.offer_id
    ELSE IF "sku" \in DOMAIN u THEN u.sku
    ELSE u.id

\* the count a stock update carries
UpdateCount(u) == IF "stock" \in DOMAIN u THEN u.stock ELSE u.items[1].count

----------------------------------------------------------------------------
(* The listing endpoint.  A page body is what response.json() holds:       *)
(*   has_result           "result" is present                              *)
(*   has_items, items     "items" (Ozon) / "offerMappingEntries" (Market)  *)
(*   has_total, total     "total" (Ozon)                                   *)
(*   has_paging           "paging" (Market)                                *)
(*   has_token, token     "last_id" (Ozon) / "nextPageToken" (Market)      *)
(* and an entry is [has_offer, has_id, id]: "offer" (Market) and           *)
(* "offer_id" (Ozon) / "shopSku" (Market).                                 *)

Entry(id) == [has_offer |-> TRUE, has_id |-> TRUE, id |-> id]

Body(items, total, token) ==
    [has_result |-> TRUE, has_items |-> TRUE, items |-> items,
     has_total |-> TRUE, total |-> total,
     has_paging |-> TRUE, has_token |-> TRUE, token |-> token]

\* dict.get of an absent key
Get(present, value) == IF present THEN value ELSE None

\* one iteration of seller.get_offer_ids' loop on a page body, and the
\* extraction of the ids once the loop breaks
SellerPageStep(body, products) ==
    IF ~body.has_result THEN [status |-> "AttributeError"]
    ELSE IF ~body.has_items THEN [status |-> "TypeError"]
    ELSE LET all == products \o body.items
         IN  IF body.has_total /\ body.total = Len(all)
             THEN [status |-> "return",
                   product_list |-> all,
                   page |-> Get(body.has_token, body.token),
                   offer_ids |-> [k \in 1..Len(all) |-> Get(all[k].has_id, all[k].id)]]
             ELSE [status |-> "continue",
                   product_list |-> all,
                   page |-> Get(body.has_token, body.token)]

\* one iteration of market.get_offer_ids' loop on a page body, and the
\* extraction of the ids once the loop breaks
MarketPageStep(body, products) ==
    IF ~body.has_result THEN [status |-> "AttributeError"]
    ELSE IF ~body.has_items THEN [status |-> "TypeError"]
    ELSE IF ~body.has_paging THEN [status |-> "AttributeError"]
    ELSE LET all == products \o body.items
             next == Get(body.has_token, body.token)
         IN  IF next = None \/ next = <<>>
             THEN IF \E k \in 1..Len(all) : ~all[k].has_offer
                  THEN [status |-> "AttributeError"]
                  ELSE [status |-> "return",
                        product_list |-> all,
                        page |-> next,
                        offer_ids |-> [k \in 1..Len(all) |-> Get(all[k].has_id, all[k].id)]]
             ELSE [status |-> "continue", product_list |-> all, page |-> next]

PageStep(body, products) ==
    IF prog = "seller" THEN SellerPageStep(body, products)
    ELSE MarketPageStep(body, products)

----------------------------------------------------------------------------
(* Positions of main *)

TransportErrors == {"HTTPError", "ConnectionError", "ReadTimeout"}

Outcomes == {"ok"} \cup TransportErrors

Request(kind, idx, cursor, items) ==
    [kind |-> kind, campaign |-> campaign, idx |-> idx, cursor |-> cursor, items |-> items]

StocksChunk == IF prog = "seller" THEN OzonStocksChunk ELSE MarketStocksChunk

PricesChunk == IF prog = "seller" THEN OzonPricesChunk ELSE MarketPricesChunk

\* where main goes once the stock chunks are submitted
AfterStocks == IF prog = "seller" THEN "build_prices" ELSE "upload_prices"

Warehouse == IF campaign = "fbs" THEN "warehouse_fbs_id" ELSE "warehouse_dbs_id"

create_stocks(feed, ids) ==
    IF prog = "seller" THEN SellerCreateStocks(feed, ids)
    ELSE MarketCreateStocks(feed, ids, Warehouse)

create_prices(feed, ids) ==
    IF prog = "seller" THEN SellerCreatePrices(feed, ids)
    ELSE MarketCreatePrices(feed, ids)

\* the exception is swallowed where it is raised and the statement tried again
RaiseAndGoOn(exception) ==
    /\ error' = exception
    /\ pc' = pc

\* the exception reaches main's except clauses (or leaves main), the run ends
Raise(exception) ==
    /\ error' = exception
    /\ pc' = "failed"

\* get_product_list and one turn of get_offer_ids' while loop
FetchPage ==
    /\ pc = "fetch"
    /\ \E outcome \in Outcomes :
        /\ requests' = Append(requests, Request("list", Len(seen) + 1, page, <<>>))
        /\ IF outcome # "ok"
           THEN /\ Raise(outcome)
                /\ UNCHANGED <<server, seen, page, product_list, offer_ids, fetched>>
           ELSE /\ server[campaign] # <<>>
                /\ LET body == Head(server[campaign])
                       r == PageStep(body, product_list)
                   IN  /\ server' = [server EXCEPT ![campaign] = Tail(@)]
                       /\ seen' = Append(seen, body)
                       /\ IF r.status = "return"
                          THEN /\ product_list' = r.product_list
                               /\ page' = r.page
                               /\ offer_ids' = r.offer_ids
                               /\ fetched' = [fetched EXCEPT ![campaign] = r.offer_ids]
                               /\ pc' = IF prog = "seller" THEN "download" ELSE "build_stocks"
                               /\ error' = error
                          ELSE IF r.status = "continue"
                          THEN /\ product_list' = r.product_list
                               /\ page' = r.page
                               /\ UNCHANGED <<offer_ids, fetched, pc, error>>
                          ELSE /\ Raise(r.status)
                               /\ UNCHANGED <<page, product_list, offer_ids, fetched>>
    /\ UNCHANGED <<prog, campaign, source, watch_remnants, stocks, prices, batch, i, lst, n>>

\* download_stock()
Download ==
    /\ pc = "download"
    /\ \E outcome \in Outcomes :
        /\ requests' = Append(requests, Request("download", 1, <<>>, <<>>))
        /\ IF outcome # "ok"
           THEN /\ Raise(outcome)
                /\ UNCHANGED watch_remnants
           ELSE /\ watch_remnants' = source
                /\ pc' = IF prog = "seller" THEN "build_stocks" ELSE "fetch"
                /\ error' = error
    /\ UNCHANGED <<prog, campaign, source, server, page, product_list, offer_ids, fetched,
                   stocks, prices, batch, i, seen, lst, n>>

\* stocks = create_stocks(...) and list(divide(stocks, ...)); an empty list
\* leaves the for loop at once
BuildStocks ==
    /\ pc = "build_stocks"
    /\ LET r == create_stocks(watch_remnants, offer_ids)
       IN  /\ offer_ids' = r.offer_ids
           /\ IF r.ok
              THEN /\ stocks' = r.stocks
                   /\ batch' = divide(r.stocks, StocksChunk)
                   /\ i' = 1
                   /\ pc' = IF r.stocks = <<>> THEN AfterStocks ELSE "submit_stocks"
                   /\ error' = error
              ELSE /\ Raise("ValueError")
                   /\ UNCHANGED <<stocks, batch, i>>
    /\ UNCHANGED <<prog, campaign, source, server, watch_remnants, page, product_list,
                   fetched, prices, requests, seen, lst, n>>

\* update_stocks(some_stock, ...) for the next chunk
SubmitStocks ==
    /\ pc = "submit_stocks"
    /\ \E outcome \in Outcomes :
        /\ requests' = Append(requests, Request("stocks", i, <<>>, batch[i]))
        /\ IF outcome # "ok"
           THEN /\ Raise(outcome)
                /\ i' = i
           ELSE /\ i' = i + 1
                /\ pc' = IF i + 1 > Len(batch) THEN AfterStocks ELSE "submit_stocks"
                /\ error' = error
    /\ UNCHANGED <<prog, campaign, source, server, watch_remnants, page, product_list,
                   offer_ids, fetched, stocks, prices, batch, seen, lst, n>>

\* prices = create_prices(watch_remnants, offer_ids) and list(divide(prices, ...))
BuildPrices ==
    /\ pc = "build_prices"
    /\ LET r == create_prices(watch_remnants, offer_ids)
       IN  IF r.ok
           THEN /\ prices' = r.prices
                /\ batch' = divide(r.prices, PricesChunk)
                /\ i' = 1
                /\ pc' = IF r.prices = <<>> THEN "done" ELSE "submit_prices"
                /\ error' = error
           ELSE /\ Raise("ValueError")
                /\ UNCHANGED <<prices, batch, i>>
    /\ UNCHANGED <<prog, campaign, source, server, watch_remnants, page, product_list,
                   offer_ids, fetched, stocks, requests, seen, lst, n>>

\* update_price(some_price, ...) for the next chunk
SubmitPrices ==
    /\ pc = "submit_prices"
    /\ \E outcome \in Outcomes :
        /\ requests' = Append(requests, Request("prices", i, <<>>, batch[i]))
        /\ IF outcome # "ok"
           THEN /\ Raise(outcome)
                /\ i' = i
           ELSE /\ i' = i + 1
                /\ pc' = IF i + 1 > Len(batch) THEN "done" ELSE "submit_prices"
                /\ error' = error
    /\ UNCHANGED <<prog, campaign, source, server, watch_remnants, page, product_list,
                   offer_ids, fetched, stocks, prices, batch, seen, lst, n>>

\* market.main: upload_prices(watch_remnants, campaign, market_token) makes a
\* coroutine object that nothing awaits, its body never runs; main goes on
\* to the DBS campaign (page = "", product_list = []) or ends
UploadPricesCall ==
    /\ pc = "upload_prices"
    /\ IF campaign = "fbs"
       THEN /\ campaign' = "dbs"
            /\ pc' = "fetch"
            /\ page' = <<>>
            /\ product_list' = <<>>
            /\ seen' = <<>>
       ELSE /\ pc' = "done"
            /\ UNCHANGED <<campaign, page, product_list, seen>>
    /\ UNCHANGED <<prog, source, server, watch_remnants, offer_ids, fetched, stocks, prices,
                   batch, i, requests, error, lst, n>>

\* list(divide(lst, n)) on its own
Divide ==
    /\ pc = "divide"
    /\ batch' = divide(lst, n)
    /\ pc' = "divided"
    /\ UNCHANGED <<prog, campaign, source, server, watch_remnants, page, product_list,
                   offer_ids, fetched, stocks, prices, i, requests, seen, error, lst, n>>

----------------------------------------------------------------------------
(* Inputs *)

Codes == 1..MaxCode

Ids == {Str(c) : c \in Codes}

\* the codes of the feed rows of a whole run, and the ids its small catalogs list
RunCodes == {1, 2}

RunIds == {Str(c) : c \in RunCodes}

\* a listing endpoint that serves a catalog in pages of the given size
OzonPages(catalog, size) ==
    IF catalog = <<>> THEN <<Body(<<>>, 0, <<>>)>>
    ELSE LET chunks == divide(catalog, size)
         IN  [k \in 1..Len(chunks) |->
                 Body([j \in 1..Len(chunks[k]) |-> Entry(chunks[k][j])],
                      Len(catalog), <<"t">>)]

MarketPages(catalog, size) ==
    IF catalog = <<>> THEN <<[Body(<<>>, 0, <<>>) EXCEPT !.has_total = FALSE]>>
    ELSE LET chunks == divide(catalog, size)
         IN  [k \in 1..Len(chunks) |->
                 [Body([j \in 1..Len(chunks[k]) |-> Entry(chunks[k][j])], 0,
                       IF k = Len(chunks) THEN <<>> ELSE <<"t">>)
                  EXCEPT !.has_total = FALSE]]

SmallCatalogs == SeqUpTo(RunIds, MaxListed)

BulkCatalog == [k \in 1..BulkListed |-> Str(k)]

OzonScripts ==
    {OzonPages(c, Min(SmallPage, OzonPageLimit)) : c \in SmallCatalogs}
        \cup {OzonPages(BulkCatalog, OzonPageLimit)}

MarketScripts ==
    {MarketPages(c, Min(SmallPage, MarketPageLimit)) : c \in SmallCatalogs}
        \cup {MarketPages(BulkCatalog, MarketPageLimit)}

Row(code, count, price) == [Kod |-> code, Kolichestvo |-> count, Tsena |-> price]

\* feeds of a whole run
RunCounts == {<<"2">>, <<"2", "O">>}

RunRows == {Row(c, q, <<"5", "'", "9", ".", "0">>) : c \in RunCodes, q \in RunCounts}

RunFeeds == SeqUpTo(RunRows, MaxFeed)

\* feeds given to create_stocks on its own
FnCounts == {<<"1">>, <<"2">>, <<">", "1", "0">>, <<"2", "O">>}

StockRows == {Row(c, q, <<"7">>) : c \in Codes, q \in FnCounts}

\* quantity texts given to the quantity rule on its own
QtyChars == {"0", "1", "2", ">", "-", "+", " ", "_", "O"}

QtyTexts == SeqUpTo(QtyChars, MaxQtyLen)

\* feeds given to create_prices on its own
FnPrices == {<<"5", "'", "9", ".", "0">>, <<"7">>, <<"r", ".">>}

PriceRows == {Row(c, <<"2">>, p) : c \in Codes, p \in FnPrices}

\* characters of the price texts price_conversion is run on
PriceChars == {"1", "2", ".", "'"}

PriceTexts == SeqUpTo(PriceChars, MaxPriceLen)

DivItems == {"a", "b"}

\* page bodies of a listing endpoint that may leave any field out
NoId == [has_offer |-> TRUE, has_id |-> FALSE, id |-> None]

NoOffer == [has_offer |-> FALSE, has_id |-> FALSE, id |-> None]

NoResult == [Body(<<>>, 0, <<>>) EXCEPT !.has_result = FALSE, !.has_items = FALSE]

NoItems == [Body(<<>>, 0, <<>>) EXCEPT !.has_items = FALSE]

OzonItems == {<<>>, <<Entry(Str(1))>>, <<NoId>>, <<Entry(Str(1)), Entry(Str(2))>>}

\* a field that may be absent: [has, val]
Maybe(values, default) ==
    {[has |-> FALSE, val |-> default]} \cup {[has |-> TRUE, val |-> v] : v \in values}

OzonBodies ==
    {NoResult, NoItems} \cup
    {[Body(items, total.val, token.val) EXCEPT !.has_total = total.has,
                                               !.has_token = token.has] :
        items \in OzonItems, total \in Maybe({0, 1, 2}, 0), token \in Maybe({<<"t">>}, <<>>)}

MarketItems == OzonItems \cup {<<NoOffer>>}

MarketBodies ==
    {NoResult, NoItems} \cup
    {[Body(items, 0, <<>>) EXCEPT !.has_total = FALSE, !.has_paging = FALSE,
                                  !.has_token = FALSE] : items \in MarketItems} \cup
    {[Body(items, 0, token.val) EXCEPT !.has_total = FALSE, !.has_token = token.has] :
        items \in MarketItems, token \in Maybe({<<>>, <<"t">>}, <<>>)}

----------------------------------------------------------------------------
(* Specifications *)

\* what main has before its first statement, the inputs aside
Fresh ==
    /\ page = <<>>
    /\ product_list = <<>>
    /\ stocks = <<>>
    /\ prices = <<>>
    /\ batch = <<>>
    /\ i = 1
    /\ requests = <<>>
    /\ seen = <<>>
    /\ error = "none"

\* a run of seller.main or of market.main
Init ==
    /\ prog \in {"seller", "market"}
    /\ pc = IF prog = "seller" THEN "fetch" ELSE "download"
    /\ campaign = IF prog = "seller" THEN "ozon" ELSE "fbs"
    /\ source \in RunFeeds
    /\ server \in IF prog = "seller" THEN [{"ozon"} -> OzonScripts]
                  ELSE [{"fbs", "dbs"} -> MarketScripts]
    /\ watch_remnants = <<>>
    /\ offer_ids = <<>>
    /\ fetched = [c \in DOMAIN server |-> <<>>]
    /\ lst = <<>>
    /\ n = 1
    /\ Fresh

Next ==
    \/ FetchPage
    \/ Download
    \/ BuildStocks
    \/ SubmitStocks
    \/ BuildPrices
    \/ SubmitPrices
    \/ UploadPricesCall

Spec == Init /\ [][Next]_vars

\* a call of one function: no run around it
Standalone(position) ==
    /\ prog \in {"seller", "market"}
    /\ pc = position
    /\ campaign = IF prog = "seller" THEN "ozon" ELSE "fbs"
    /\ source = <<>>
    /\ server = [c \in {campaign} |-> <<>>]
    /\ Fresh

\* get_offer_ids against a listing endpoint that may answer anything
InitFetch ==
    /\ prog \in {"seller", "market"}
    /\ pc = "fetch"
    /\ campaign = IF prog = "seller" THEN "ozon" ELSE "fbs"
    /\ source = <<>>
    /\ server \in [{campaign} -> SeqUpTo(IF prog = "seller" THEN OzonBodies ELSE MarketBodies,
                                         MaxPages)]
    /\ watch_remnants = <<>>
    /\ offer_ids = <<>>
    /\ fetched = [c \in DOMAIN server |-> <<>>]
    /\ lst = <<>>
    /\ n = 1
    /\ Fresh

SpecFetch == InitFetch /\ [][FetchPage]_vars

\* create_stocks on every feed and every list of listed ids
InitStocks ==
    /\ Standalone("build_stocks")
    /\ watch_remnants \in SeqUpTo(StockRows, MaxFeed)
    /\ offer_ids \in SeqUpTo(Ids, MaxListed)
    /\ fetched = [c \in {campaign} |-> offer_ids]
    /\ lst = <<>>
    /\ n = 1

SpecStocks == InitStocks /\ [][BuildStocks]_vars

\* create_stocks on one listed row with every quantity text
InitQty ==
    /\ Standalone("build_stocks")
    /\ watch_remnants \in {<<Row(1, q, <<"7">>)>> : q \in QtyTexts}
    /\ offer_ids = <<Str(1)>>
    /\ fetched = [c \in {campaign} |-> offer_ids]
    /\ lst = <<>>
    /\ n = 1

SpecQty == InitQty /\ [][BuildStocks]_vars

\* create_prices on every feed and every list of listed ids
InitPrices ==
    /\ Standalone("build_prices")
    /\ watch_remnants \in SeqUpTo(PriceRows, MaxFeed)
    /\ offer_ids \in SeqUpTo(Ids, MaxListed)
    /\ fetched = [c \in {campaign} |-> offer_ids]
    /\ lst = <<>>
    /\ n = 1

SpecPrices == InitPrices /\ [][BuildPrices]_vars

\* create_prices on one listed row, over every price text
InitPriceText ==
    /\ Standalone("build_prices")
    /\ watch_remnants \in {<<Row(1, <<"2">>, p)>> : p \in PriceTexts}
    /\ offer_ids = <<Str(1)>>
    /\ fetched = [c \in {campaign} |-> offer_ids]
    /\ lst = <<>>
    /\ n = 1

SpecPriceText == InitPriceText /\ [][BuildPrices]_vars

\* divide on every list and every positive n
InitDivide ==
    /\ Standalone("divide")
    /\ watch_remnants = <<>>
    /\ offer_ids = <<>>
    /\ fetched = [c \in DOMAIN server |-> <<>>]
    /\ lst \in SeqUpTo(DivItems, MaxDivLen)
    /\ n \in 1..MaxDivN

SpecDivide == InitDivide /\ [][Divide]_vars

----------------------------------------------------------------------------
(* Properties *)

Range(f) == {f[k] : k \in DOMAIN f}

\* the ids of a list of updates, in order
UpdateIds(updates) == [k \in 1..Len(updates) |-> UpdateId(updates[k])]

\* how many times x occurs in a list
Occurrences(x, l) == Cardinality({k \in 1..Len(l) : l[k] = x})

\* the codes, as text, of the feed rows whose code is among ids, in feed order
ListedCodes(feed, ids) ==
    LET listed == SelectSeq(feed, LAMBDA row : Str(row.Kod) \in Range(ids))
    IN  [k \in 1..Len(listed) |-> Str(listed[k].Kod)]

RECURSIVE Flatten(_)
Flatten(chunks) == IF chunks = <<>> THEN <<>> ELSE Head(chunks) \o Flatten(Tail(chunks))

\* create_stocks has returned
StocksBuilt == pc \in {"submit_stocks", "build_prices", "upload_prices"}

\* create_prices has returned
PricesBuilt == pc \in {"submit_prices", "done"}

(* C1: the stock updates create_stocks returns cover exactly the listed ids
   it was given: every id of the list occurs exactly once in the result and
   no other id occurs.  (The code departs from it: the code repeats an id that the
   list repeats.) *)
C1_StocksCoverListedOnce ==
    StocksBuilt =>
        /\ \A id \in Range(fetched[campaign]) : Occurrences(id, UpdateIds(stocks)) = 1
        /\ \A id \in Range(UpdateIds(stocks)) : id \in Range(fetched[campaign])

(* C2: in a run of seller.main the price updates built after the stocks hold
   one entry for every feed row whose code is among the ids listed at fetch
   time.  (The code departs from it: the code tests membership in the list that
   create_stocks has emptied of the matched ids.) *)
C2_PricesAgainstFetchedIds ==
    (prog = "seller" /\ PricesBuilt) =>
        UpdateIds(prices) = ListedCodes(watch_remnants, fetched[campaign])

(* C3: whenever create_prices returns, the ids of its entries are, in feed
   order, the codes of the feed rows whose code is in the listed collection:
   every entry's id is listed, every listed row gives exactly one entry
   (rows with the same code one each), an unlisted row gives none. *)
C3_PricesAreListedRows ==
    PricesBuilt =>
        /\ UpdateIds(prices) = ListedCodes(watch_remnants, offer_ids)
        /\ \A id \in Range(UpdateIds(prices)) : id \in Range(offer_ids)

\* C3's case: of two rows the unlisted one gave no entry, the listed one gave one
C3_Witness ==
    /\ PricesBuilt
    /\ Len(watch_remnants) = 2
    /\ Str(watch_remnants[1].Kod) \notin Range(offer_ids)
    /\ Str(watch_remnants[2].Kod) \in Range(offer_ids)
    /\ Len(prices) = 1

\* the only row of the feed the quantity rule is tried on
OnlyCount == watch_remnants[1].Kolichestvo

AllDigits(s) == s # <<>> /\ \A k \in 1..Len(s) : s[k] \in Digits

(* C4: the quantity rule of create_stocks: "1" gives 0, ">10" gives 100, any
   other text of digits gives its value, and a text with a character that is
   no digit, other than those two texts, makes create_stocks fail.  (The code departs
   from it: int() accepts a sign, surrounding spaces and underscores.) *)
C4_QuantityRule ==
    (pc # "build_stocks" /\ Len(watch_remnants) = 1) =>
        IF OnlyCount = <<"1">>
        THEN StocksBuilt /\ UpdateCount(stocks[1]) = 0
        ELSE IF OnlyCount = <<">", "1", "0">>
        THEN StocksBuilt /\ UpdateCount(stocks[1]) = 100
        ELSE IF AllDigits(OnlyCount)
        THEN StocksBuilt /\ UpdateCount(stocks[1]) = DigitsValue(OnlyCount, 0)
        ELSE IF \E k \in 1..Len(OnlyCount) : OnlyCount[k] \notin Digits
        THEN pc = "failed" /\ error = "ValueError"
        ELSE TRUE

(* C5: the chunks of divide(lst, n), put end to end, are lst; every chunk but
   the last has exactly n elements; the last has between 1 and n; an empty
   lst gives no chunk. *)
C5_DivideChunks ==
    pc = "divided" =>
        /\ Flatten(batch) = lst
        /\ \A k \in 1..(Len(batch) - 1) : Len(batch[k]) = n
        /\ lst # <<>> =>
             /\ batch # <<>>
             /\ Len(batch[Len(batch)]) \in 1..n
        /\ lst = <<>> => batch = <<>>

\* C5's case: several chunks, the last one short
C5_Witness ==
    /\ pc = "divided"
    /\ Len(batch) >= 2
    /\ Len(batch[Len(batch)]) < n
    /\ Len(batch[1]) = n

\* a quantity text that is neither "1" nor ">10" and that int() rejects
BadCount(count) == count \notin {<<"1">>, <<">", "1", "0">>} /\ ~PyInt(count).ok

\* the stock-update requests issued so far for a campaign
StockRequests(c) ==
    {k \in 1..Len(requests) : requests[k].kind = "stocks" /\ requests[k].campaign = c}

(* C6: if the feed of a run holds a row whose quantity is neither "1", ">10"
   nor an integer literal, the run fails with a parse error and submits no
   stock-update request, whatever the listed ids are.  (The code departs from it: a
   row whose code is not listed is never parsed.) *)
C6_AnyBadQuantityStopsRun ==
    (\E k \in 1..Len(watch_remnants) : BadCount(watch_remnants[k].Kolichestvo)) =>
        /\ \A k \in 1..Len(requests) : requests[k].kind # "stocks"
        /\ pc \notin {"submit_stocks", "build_prices", "submit_prices", "upload_prices", "done"}

\* create_stocks, given this feed and these listed ids, comes to a row with a
\* bad quantity while the row's code is still in its list: the code is listed
\* more often than it occurs in the rows before
MeetsBadCount(feed, ids) ==
    \E k \in 1..Len(feed) :
        /\ BadCount(feed[k].Kolichestvo)
        /\ Occurrences(Str(feed[k].Kod), ids) >
               Cardinality({j \in 1..(k - 1) : feed[j].Kod = feed[k].Kod})

(* C6, amended: if create_stocks comes to a row with a bad quantity while the
   row's code is still in its list of listed ids, the run ends there with
   ValueError and no stock-update request is submitted for that campaign (in
   seller.main: in that run). *)
C6_BadListedQuantityStopsRun ==
    MeetsBadCount(watch_remnants, fetched[campaign]) =>
        /\ StockRequests(campaign) = {}
        /\ pc \in {"build_stocks", "failed"}
        /\ pc = "failed" => error = "ValueError"

\* C6's case: a row with a bad quantity and a listed code ended the run
C6_Witness ==
    /\ MeetsBadCount(watch_remnants, fetched[campaign])
    /\ pc = "failed"
    /\ error = "ValueError"
    /\ requests # <<>>

\* get_offer_ids has returned
Fetched == pc \in {"download", "build_stocks"}

\* a page body with every field get_offer_ids reads
WellFormed(body) ==
    /\ body.has_result
    /\ body.has_items
    /\ body.has_token
    /\ IF prog = "seller" THEN body.has_total ELSE body.has_paging
    /\ \A k \in 1..Len(body.items) :
          body.items[k].has_id /\ (prog = "market" => body.items[k].has_offer)

(* C7: get_offer_ids returns a list only if every page body it consumed had
   every expected field (result, the entry list, the continuation fields,
   each entry's identifier), and a list it returns holds no None.  (The code departs
   from it: dict.get turns an absent field into None without failing.) *)
C7_MalformedPageFails ==
    Fetched =>
        /\ \A k \in 1..Len(seen) : WellFormed(seen[k])
        /\ None \notin Range(offer_ids)

RECURSIVE PriceItems(_, _)
\* the price updates the requests of a log carry for a campaign, in order
PriceItems(log, c) ==
    IF log = <<>> THEN <<>>
    ELSE (IF Head(log).kind = "prices" /\ Head(log).campaign = c
          THEN Head(log).items ELSE <<>>) \o PriceItems(Tail(log), c)

(* C8: a run of market.main in which no request fails has submitted, when it
   ends, price updates for every feed row whose code is listed in the FBS
   campaign and for every feed row whose code is listed in the DBS campaign.
   (The code departs from it: upload_prices is a coroutine function that main calls
   without awaiting it, so no price request is ever sent.) *)
C8_MarketSubmitsPrices ==
    (prog = "market" /\ pc = "done") =>
        \A c \in {"fbs", "dbs"} :
            UpdateIds(PriceItems(requests, c)) = ListedCodes(watch_remnants, fetched[c])

(* C9: every stock-update request of a run of market.main carries at most the
   100 entries update_stocks states as the endpoint's maximum.  (The code departs
   from it: main cuts the stocks into chunks of 2000.) *)
C9_MarketStockRequestWithinLimit ==
    \A k \in 1..Len(requests) :
        (prog = "market" /\ requests[k].kind = "stocks") =>
            Len(requests[k].items) <= MarketStocksPerRequest

\* the requests a log holds before position k for the same endpoint and campaign
Earlier(k) ==
    {j \in 1..(k - 1) : /\ requests[j].kind = requests[k].kind
                        /\ requests[j].campaign = requests[k].campaign}

\* the submit requests went out in batch order, each chunk once
ChunksInOrder ==
    \A k \in 1..Len(requests) :
        requests[k].kind \in {"stocks", "prices"} =>
            requests[k].idx = Cardinality(Earlier(k)) + 1

(* C10: once a request of a run has failed, the run issues no further
   request (no retry, no remaining chunk, no second campaign, no
   compensation); the chunks of a batch go out in batch order, each at most
   once, and a run that has failed stays failed. *)
C10_NoRequestAfterFailure ==
    /\ [](ChunksInOrder)
    /\ [][/\ error # "none" => (requests' = requests /\ error' = error)
          /\ requests' # requests =>
                /\ Len(requests') = Len(requests) + 1
                /\ SubSeq(requests', 1, Len(requests)) = requests
                /\ requests'[Len(requests')].kind \in {"stocks", "prices"} =>
                      requests'[Len(requests')].items = batch[requests'[Len(requests')].idx]
         ]_vars

\* C10's case: the first of several stock chunks failed and the others were
\* never sent
C10_Witness ==
    /\ pc = "failed"
    /\ error \in TransportErrors
    /\ requests[Len(requests)].kind = "stocks"
    /\ requests[Len(requests)].idx < Len(batch)

\* the list create_stocks was given (main's offer_ids as get_offer_ids returned it)
Listed == fetched[campaign]

\* <<id, count>> of every stock update, in order
StockPairs == [k \in 1..Len(stocks) |-> <<UpdateId(stocks[k]), UpdateCount(stocks[k])>>]

\* the rows of the feed with a listed code that no earlier row carries
FirstListedRows(feed, ids) ==
    LET keep == {k \in 1..Len(feed) :
                    /\ Str(feed[k].Kod) \in Range(ids)
                    /\ \A j \in 1..(k - 1) : feed[j].Kod # feed[k].Kod}
        nth(m) == CHOOSE k \in keep : Cardinality({j \in keep : j < k}) = m - 1
    IN  [m \in 1..Cardinality(keep) |-> feed[nth(m)]]

\* the listed ids that are the code of no feed row, in the order of the list
UnmatchedIds(feed, ids) ==
    SelectSeq(ids, LAMBDA id : \A k \in 1..Len(feed) : Str(feed[k].Kod) # id)

(* C11: the list create_stocks returns is, first, the updates for the feed
   rows that matched a listed id, in feed order, then the zero-count updates
   for the listed ids no feed row matched, in the order of the listed
   collection.  (The code departs from it when the listed collection repeats
   an id: the occurrences a feed row did not use up follow as zero-count
   updates although the id was matched.) *)
C11_MatchedThenUnmatched ==
    StocksBuilt =>
        LET rows == FirstListedRows(watch_remnants, Listed)
            rest == UnmatchedIds(watch_remnants, Listed)
        IN  StockPairs =
                [k \in 1..Len(rows) |->
                    <<Str(rows[k].Kod), stock_of_count(rows[k].Kolichestvo).val>>]
                \o [k \in 1..Len(rest) |-> <<rest[k], 0>>]

\* where the first "." of a text is, one past its end when it has none
FirstDot(s) ==
    IF \E k \in 1..Len(s) : s[k] = "."
    THEN CHOOSE k \in 1..Len(s) : s[k] = "." /\ \A j \in 1..(k - 1) : s[j] # "."
    ELSE Len(s) + 1

\* the decimal digits of the part of a text before its first "."
LeadingDigits(s) ==
    SelectSeq(SubSeq(s, 1, FirstDot(s) - 1), LAMBDA c : c \in Digits)

\* the price text of the one row of the feed
PriceText == watch_remnants[1].Tsena

(* C12: price_conversion keeps only the part of the price text before its
   FIRST "." and removes every character that is not a decimal digit: the
   result is exactly the digits of that part, in order, however many further
   dots follow, and holds no digit from after the first dot.  The Ozon price
   update carries that text, the Market one its integer value. *)
C12_DigitsBeforeFirstDot ==
    /\ price_conversion(PriceText) = LeadingDigits(PriceText)
    /\ PricesBuilt /\ prog = "seller" =>
           /\ Len(prices) = 1
           /\ prices[1].price = LeadingDigits(PriceText)
    /\ PricesBuilt /\ prog = "market" =>
           /\ Len(prices) = 1
           /\ prices[1].price.value = DigitsValue(LeadingDigits(PriceText), 0)

\* a built Ozon price from a text with a non-digit before its first dot, a
\* digit after it and a further dot
C12_Witness ==
    /\ PricesBuilt
    /\ prog = "seller"
    /\ prices[1].price # <<>>
    /\ \E k \in 1..Len(PriceText) :
           /\ k < FirstDot(PriceText)
           /\ PriceText[k] \notin Digits
    /\ \E k, m \in 1..Len(PriceText) :
           /\ FirstDot(PriceText) < k
           /\ FirstDot(PriceText) < m
           /\ PriceText[k] \in Digits
           /\ PriceText[m] = "."

\* the updates the first loop of create_stocks appended: all but the trailing
\* ones, of which the second loop appends one per id left in the list
FeedUpdates == SubSeq(StockPairs, 1, Len(stocks) - Len(offer_ids))

(* C13: when several feed records carry the same listed code, create_stocks
   emits a stock update only for the first of them in feed order, with that
   record's normalized quantity; every later record with the code produces no
   update, whatever listed collection the catalog fetcher returned.  (The code
   departs from it when the listed collection repeats the id: each occurrence
   lets one more feed record through.) *)
C13_OnlyFirstRecordPerCode ==
    StocksBuilt =>
        LET rows == FirstListedRows(watch_remnants, Listed)
        IN  FeedUpdates =
                [k \in 1..Len(rows) |->
                    <<Str(rows[k].Kod), stock_of_count(rows[k].Kolichestvo).val>>]

RECURSIVE Accumulated(_)
\* the entries of the first k page bodies get_offer_ids consumed, in page order
Accumulated(k) == IF k = 0 THEN <<>> ELSE Accumulated(k - 1) \o seen[k].items

\* the k-th page body reports the listing exhausted: for Ozon the entries
\* accumulated so far are as many as its total, or more; for Market its
\* nextPageToken is empty or absent
Exhausted(k) ==
    IF prog = "seller"
    THEN seen[k].has_total /\ Len(Accumulated(k)) >= seen[k].total
    ELSE seen[k].has_paging /\ Get(seen[k].has_token, seen[k].token) \in {None, <<>>}

(* C14: the paging loop of get_offer_ids ends as soon as a page reports the
   listing exhausted -- for Market a page whose nextPageToken is empty, for
   Ozon a page after which the accumulated entries are as many as the
   reported total or more (a total that shrank, a page that overshot) -- then
   no further page is requested and the accumulated ids are returned, one per
   entry, in page order.  (The code departs from it for Ozon: its loop breaks
   only when the total EQUALS the accumulated count.) *)
C14_StopsWhenExhausted ==
    error = "none" =>
        \A k \in 1..Len(seen) :
            Exhausted(k) =>
                /\ k = Len(seen)
                /\ Fetched
                /\ Len(requests) = k
                /\ offer_ids = [m \in 1..Len(Accumulated(k)) |->
                                   Get(Accumulated(k)[m].has_id, Accumulated(k)[m].id)]

(* C15: create_stocks works on its own copy of the listed collection: once it
   has returned, or failed, the list the caller passed holds the same ids in
   the same order as before the call.  (The code departs from it:
   offer_ids.remove acts on the caller's list itself.) *)
C15_CallerListUntouched ==
    pc # "build_stocks" => offer_ids = Listed

====
